---------------------------- MODULE Spec2Model ----------------------------
(***************************************************************************)
(* The documentation-maintenance scripts of .development/scripts:          *)
(*   update-tech-debt-index.py  frontmatter parsing, title extraction,     *)
(*                              index generation, README region replace    *)
(*   session-archive.py         transcript archiving                       *)
(* Text is a sequence of one-character strings, so that slicing, regular   *)
(* expression search and whitespace stripping are computed character by    *)
(* character, with Python's 0-based offsets kept where the source has them.*)
(* The grave accent, which a TLA+ string cannot hold, is the one-character *)
(* token "backtick".                                                       *)
(***************************************************************************)
EXTENDS Integers, Sequences, FiniteSets, TLC

VARIABLES
    pc,            \* position of the running script
    content,       \* local `content`: the text read from the file at hand
    frontmatter,   \* result of parse_frontmatter(content), a set of <<key, value>>
    title,         \* result of extract_title(content)
    readme_exists, \* README_FILE.exists()
    readme,        \* text of README_FILE
    new_section,   \* the fragment handed to update_readme
    branch,        \* what update_readme did: "missing", "replace", "insert", "append", "error"
    tech_debt,     \* TECH_DEBT_DIR: the *.md files but the README, each [filename, text]
    issues,        \* list built by scan_issues
    by_priority,   \* main's dict by_priority, a set of <<priority, count>>
    printed,       \* the "  High: n" lines main printed, each <<label, count>>
    exit_code,     \* process exit status, -1 while running
    writes,        \* the files and directories the run created or wrote, in order
    stdin,         \* session-archive: the JSON document on standard input
    fs,            \* session-archive: the set of existing paths
    data,          \* session-archive: json.load(sys.stdin), a set of <<key, value>>
    project_root   \* session-archive: find_project_root(cwd)

vars == <<pc, content, frontmatter, title, readme_exists, readme, new_section,
          branch, tech_debt, issues, by_priority, printed, exit_code, writes,
          stdin, fs, data, project_root>>

-----------------------------------------------------------------------------
(* Python string primitives *)

Min(a, b) == IF a < b THEN a ELSE b

Max(S) == CHOOSE x \in S : \A y \in S : y <= x

Least(S) == CHOOSE x \in S : \A y \in S : x <= y

\* str.strip() with no argument strips these
WS == {" ", "\n", "\t", "\r"}

\* s[a:b] with 0 <= a, clamped to the string as Python does
Slice(s, a, b) == IF a >= Min(b, Len(s)) THEN << >> ELSE SubSeq(s, a + 1, Min(b, Len(s)))

\* s[a:]
SliceFrom(s, a) == Slice(s, a, Len(s))

startswith(s, p) == Len(s) >= Len(p) /\ SubSeq(s, 1, Len(p)) = p

endswith(s, p) == Len(s) >= Len(p) /\ SubSeq(s, Len(s) - Len(p) + 1, Len(s)) = p

RECURSIVE lstrip(_)
lstrip(s) == IF s # << >> /\ Head(s) \in WS THEN lstrip(Tail(s)) ELSE s

RECURSIVE rstrip(_)
rstrip(s) == IF s # << >> /\ s[Len(s)] \in WS THEN rstrip(SubSeq(s, 1, Len(s) - 1)) ELSE s

strip(s) == lstrip(rstrip(s))

\* 0-based offset of the first occurrence of the literal p in s at or after
\* offset i, or -1: str.find, and re.search of a pattern without operators
find(s, p, i) ==
    LET hits == {k \in i..(Len(s) - Len(p)) : SubSeq(s, k + 1, k + Len(p)) = p}
    IN  IF hits = {} THEN -1 ELSE Least(hits)

\* s.split(c) for a one-character separator
RECURSIVE split(_, _)
split(s, c) ==
    LET i == find(s, <<c>>, 0)
    IN  IF i = -1 THEN <<s>>
        ELSE <<Slice(s, 0, i)>> \o split(SliceFrom(s, i + 1), c)

\* sep.join(lines)
RECURSIVE join(_, _)
join(lines, sep) ==
    IF lines = << >> THEN << >>
    ELSE IF Len(lines) = 1 THEN lines[1]
    ELSE lines[1] \o sep \o join(Tail(lines), sep)

-----------------------------------------------------------------------------
(* parse_frontmatter *)

\* re.search(r'\n---\n', s).start(), or -1 when there is no match
SearchClosing(s) == find(s, <<"\n","-","-","-","\n">>, 0)

\* lines 50-53: one layer of quotes removed when both ends carry the same quote
Unquote(value) ==
    IF startswith(value, <<"\"">>) /\ endswith(value, <<"\"">>) THEN Slice(value, 1, Len(value) - 1)
    ELSE IF startswith(value, <<"'">>) /\ endswith(value, <<"'">>) THEN Slice(value, 1, Len(value) - 1)
    ELSE value

\* lines 45-54: one line of the block applied to the mapping
ParseLine(line, fm) ==
    LET i == find(line, <<":">>, 0)
    IN  IF i = -1 THEN fm
        ELSE LET key == strip(Slice(line, 0, i))
                 value == Unquote(strip(SliceFrom(line, i + 1)))
             IN  {p \in fm : p[1] # key} \cup {<<key, value>>}

RECURSIVE ParseLines(_, _)
ParseLines(lines, fm) ==
    IF lines = << >> THEN fm
    ELSE ParseLines(Tail(lines), ParseLine(Head(lines), fm))

parse_frontmatter(c) ==
    IF ~startswith(c, <<"-","-","-">>) THEN {}
    ELSE LET start == SearchClosing(SliceFrom(c, 3))
         IN  IF start = -1 THEN {}
             ELSE LET yaml_content == Slice(c, 4, start + 4)
                  IN  ParseLines(split(strip(yaml_content), "\n"), {})

\* dict.get(key, default) on a set of <<key, value>>
Get(fm, key, default) ==
    IF \E p \in fm : p[1] = key THEN (CHOOSE p \in fm : p[1] = key)[2] ELSE default

-----------------------------------------------------------------------------
(* extract_title *)

\* the matches of ^#\s+(.+)$ under re.MULTILINE are sequences of zero or one group
RECURSIVE WsEnd(_, _)
WsEnd(s, j) == IF j < Len(s) /\ s[j + 1] \in WS THEN WsEnd(s, j + 1) ELSE j

RECURSIVE LineEnd(_, _)
LineEnd(s, k) == IF k < Len(s) /\ s[k + 1] # "\n" THEN LineEnd(s, k + 1) ELSE k

\* the match that starts at the 1-based position i: '#', then \s+ taking as much
\* whitespace (newlines included) as it can and giving characters back until
\* (.+) finds one character that is not a newline, then the rest of that line
TitleMatchAt(s, i) ==
    IF ~(s[i] = "#" /\ (i = 1 \/ s[i - 1] = "\n")) THEN << >>
    ELSE LET j == WsEnd(s, i)
         IN  IF j = i THEN << >>
             ELSE IF j < Len(s) THEN <<SubSeq(s, j + 1, LineEnd(s, j + 1))>>
             ELSE LET K == {k \in (i + 2)..j : s[k] # "\n"}
                  IN  IF K = {} THEN << >>
                      ELSE <<SubSeq(s, Max(K), LineEnd(s, Max(K)))>>

RECURSIVE TitleSearch(_, _)
TitleSearch(s, i) ==
    IF i > Len(s) THEN << >>
    ELSE IF TitleMatchAt(s, i) # << >> THEN TitleMatchAt(s, i)
    ELSE TitleSearch(s, i + 1)

Untitled == <<"U","n","t","i","t","l","e","d">>

\* lines 62-65: the text left once the frontmatter is skipped
SkipFrontmatter(c) ==
    IF startswith(c, <<"-","-","-">>)
    THEN LET start == SearchClosing(SliceFrom(c, 3))
             end == start + 5
         IN  IF start # -1 THEN SliceFrom(c, end + 4) ELSE c
    ELSE c

extract_title(c) ==
    LET match == TitleSearch(SkipFrontmatter(c), 1)
    IN  IF match # << >> THEN strip(match[1]) ELSE Untitled

-----------------------------------------------------------------------------
(* generate_index_section *)

\* PRIORITY_ORDER
PRIORITY_ORDER == << <<"h","i","g","h">>, <<"m","e","d","i","u","m">>, <<"l","o","w">> >>

UPPERCASE == <<"A","B","C","D","E","F","G","H","I","J","K","L","M","N","O","P","Q","R","S","T","U","V","W","X","Y","Z">>

LOWERCASE == <<"a","b","c","d","e","f","g","h","i","j","k","l","m","n","o","p","q","r","s","t","u","v","w","x","y","z">>

IndexIn(c, alphabet) == CHOOSE i \in 1..Len(alphabet) : alphabet[i] = c

\* str.lower()
lower(s) ==
    [i \in 1..Len(s) |->
        IF \E k \in 1..Len(UPPERCASE) : UPPERCASE[k] = s[i]
        THEN LOWERCASE[IndexIn(s[i], UPPERCASE)] ELSE s[i]]

\* str.upper()
upper(s) ==
    [i \in 1..Len(s) |->
        IF \E k \in 1..Len(LOWERCASE) : LOWERCASE[k] = s[i]
        THEN UPPERCASE[IndexIn(s[i], LOWERCASE)] ELSE s[i]]

\* str.capitalize()
capitalize(s) == IF s = << >> THEN s ELSE upper(<<Head(s)>>) \o lower(Tail(s))

\* the printable ASCII characters in code order, from the space (code 32) on
ASCII == <<" ","!","\"","#","$","%","&","'","(",")","*","+",",","-",".","/","0","1","2","3","4","5","6","7","8","9",":",";","<","=",">","?","@","A","B","C","D","E","F","G","H","I","J","K","L","M","N","O","P","Q","R","S","T","U","V","W","X","Y","Z","[","\\","]","^","_","backtick","a","b","c","d","e","f","g","h","i","j","k","l","m","n","o","p","q","r","s","t","u","v","w","x","y","z","{","|","}","~">>

ord(c) == IF c = "\n" THEN 10 ELSE IF c = "\t" THEN 9 ELSE IF c = "\r" THEN 13 ELSE IndexIn(c, ASCII) + 31

\* a < b for str: code point order, a proper prefix first
RECURSIVE StrLess(_, _)
StrLess(a, b) ==
    IF b = << >> THEN FALSE
    ELSE IF a = << >> THEN TRUE
    ELSE IF Head(a) # Head(b) THEN ord(Head(a)) < ord(Head(b))
    ELSE StrLess(Tail(a), Tail(b))

\* list.sort(key=lambda x: x['filename']): a stable insertion of each element
RECURSIVE InsertSorted(_, _)
InsertSorted(sorted, x) ==
    IF sorted = << >> THEN <<x>>
    ELSE IF StrLess(x.filename, Head(sorted).filename) THEN <<x>> \o sorted
    ELSE <<Head(sorted)>> \o InsertSorted(Tail(sorted), x)

RECURSIVE SortByFilename(_)
SortByFilename(l) ==
    IF l = << >> THEN << >>
    ELSE InsertSorted(SortByFilename(SubSeq(l, 1, Len(l) - 1)), l[Len(l)])

\* the bucket chosen without lower(): the priority compared as the file spells it
BucketOf_CaseSensitive(issue) ==
    IF \E i \in 1..Len(PRIORITY_ORDER) : PRIORITY_ORDER[i] = issue.priority
    THEN issue.priority ELSE <<"l","o","w">>

\* lines 110-114: the bucket an issue is appended to
BucketOf(issue) ==
    LET priority == lower(issue.priority)
    IN  IF \E i \in 1..Len(PRIORITY_ORDER) : PRIORITY_ORDER[i] = priority
        THEN priority ELSE <<"l","o","w">>

\* lines 108-118: by_priority[p], in the order of the issue list, then sorted
RECURSIVE GroupOf(_, _)
GroupOf(l, p) ==
    IF l = << >> THEN << >>
    ELSE IF BucketOf(Head(l)) = p THEN <<Head(l)>> \o GroupOf(Tail(l), p)
    ELSE GroupOf(Tail(l), p)

Bucket(l, p) == SortByFilename(GroupOf(l, p))

\* line 131
IssueLine(issue) == <<"-"," ","backtick">> \o issue.filename \o <<"backtick"," ","-"," ">> \o issue.title

RECURSIVE IssueLines(_)
IssueLines(l) == IF l = << >> THEN << >> ELSE <<IssueLine(Head(l))>> \o IssueLines(Tail(l))

\* lines 121-133: the lines of one priority
PriorityLines(l, p) ==
    LET priority_issues == Bucket(l, p)
        label == capitalize(p)
    IN  (IF priority_issues = << >>
         THEN << <<"*","*">> \o label \o <<" ","P","r","i","o","r","i","t","y",":","*","*"," ","N","o","n","e"," ","c","u","r","r","e","n","t","l","y">> >>
         ELSE << <<"*","*">> \o label \o <<" ","P","r","i","o","r","i","t","y",":","*","*">> >> \o IssueLines(priority_issues))
        \o << << >> >>

HEADING == <<"#","#"," ","C","u","r","r","e","n","t"," ","I","s","s","u","e","s"," ","b","y"," ","P","r","i","o","r","i","t","y">>

\* lines 100-133: the list `lines`; now is datetime.now().strftime('%Y-%m-%d %H:%M')
SectionLines(l, now) ==
    << HEADING, << >>, <<"*","A","u","t","o","-","u","p","d","a","t","e","d",":"," ">> \o now \o <<"*">>, << >> >>
    \o PriorityLines(l, PRIORITY_ORDER[1])
    \o PriorityLines(l, PRIORITY_ORDER[2])
    \o PriorityLines(l, PRIORITY_ORDER[3])

generate_index_section(l, now) == join(SectionLines(l, now), <<"\n">>)

-----------------------------------------------------------------------------
(* update_readme *)

\* the lookahead had it been (?=\n#|\Z): any heading line ends the region
Lookahead_AnyHeading(s, k) ==
    \/ k = Len(s)
    \/ Slice(s, k, k + 2) = <<"\n","#">>

\* the lookahead (?=\n## [^#]|\Z) at 0-based offset k
Lookahead(s, k) ==
    \/ k = Len(s)
    \/ /\ Slice(s, k, k + 4) = <<"\n","#","#"," ">>
       /\ k + 4 < Len(s)
       /\ s[k + 5] # "#"

\* .* in place of .*?: as many characters as there are, to the end of the text
LazyEnd_Greedy(s, k) == Len(s)

\* .*? under re.DOTALL from offset k: as few characters, whatever they are, as
\* bring the match to an offset where the lookahead holds
LazyEnd(s, k) == Least({e \in k..Len(s) : Lookahead(s, e)})

\* re.search(pattern, content, re.DOTALL) finds a match
SectionFound(s) == find(s, HEADING, 0) # -1

\* the replacement template as re.sub expands it: a backslash escape is replaced,
\* an unknown escape of a letter or a digit is an error (no group exists)
EscapeChar(c) ==
    IF c = "n" THEN <<"\n">> ELSE IF c = "t" THEN <<"\t">> ELSE IF c = "r" THEN <<"\r">>
    ELSE IF c = "\\" THEN <<"\\">> ELSE <<"\\", c>>

BadEscape(c) ==
    /\ c \notin {"n", "t", "r"}
    /\ \E k \in 1..Len(ASCII) : ASCII[k] = c /\ (ord(c) \in 48..57 \/ ord(c) \in 65..90 \/ ord(c) \in 97..122)

\* the template is read left to right, a backslash taking the character after it
RECURSIVE TemplateOk(_)
TemplateOk(t) ==
    LET i == find(t, <<"\\">>, 0)
    IN  IF i = -1 THEN TRUE
        ELSE IF i + 1 = Len(t) THEN FALSE
        ELSE ~BadEscape(t[i + 2]) /\ TemplateOk(SliceFrom(t, i + 2))

RECURSIVE Expand(_)
Expand(t) ==
    LET i == find(t, <<"\\">>, 0)
    IN  IF i = -1 THEN t
        ELSE Slice(t, 0, i) \o EscapeChar(t[i + 2]) \o Expand(SliceFrom(t, i + 2))

\* re.sub(pattern, repl, s, flags=re.DOTALL) from offset pos on: every match,
\* left to right, none overlapping, replaced by the expanded template
RECURSIVE Sub(_, _, _)
Sub(s, repl, pos) ==
    LET start == find(s, HEADING, pos)
    IN  IF start = -1 THEN SliceFrom(s, pos)
        ELSE Slice(s, pos, start) \o repl \o Sub(s, repl, LazyEnd(s, start + Len(HEADING)))

\* re.search(r'\n## Integration', content).start(), or -1
SearchIntegration(s) == find(s, <<"\n","#","#"," ","I","n","t","e","g","r","a","t","i","o","n">>, 0)

\* lines 150-160: which branch computes new_content
BranchOf(c, section) ==
    IF SectionFound(c)
    THEN (IF TemplateOk(rstrip(section) \o <<"\n">>) THEN "replace" ELSE "error")
    ELSE IF SearchIntegration(c) # -1 THEN "insert"
    ELSE "append"

\* lines 150-160: new_content
NewContent(c, section) ==
    IF SectionFound(c)
    THEN Sub(c, Expand(rstrip(section) \o <<"\n">>), 0)
    ELSE LET insert_pos == SearchIntegration(c)
         IN  IF insert_pos # -1
             THEN Slice(c, 0, insert_pos) \o <<"\n">> \o section \o <<"\n">> \o SliceFrom(c, insert_pos)
             ELSE rstrip(c) \o <<"\n","\n">> \o section

-----------------------------------------------------------------------------
(* Bounded inputs *)

\* texts handed to parse_frontmatter and extract_title have at most this many lines
MaxTextLines == 4

\* README documents have at most this many lines
MaxDocLines == 3

\* TECH_DEBT_DIR holds at most this many *.md files besides the README
MaxFiles == 2

TextLines ==
    { <<"-","-","-">>, <<"p","r","i","o","r","i","t","y",":"," ","\"","H","i","g","h","\"">>, <<"p","r","i","o","r","i","t","y",":"," ","'","l","o","w","'">>, <<"s","t","a","t","u","s",":"," ","\"","x","'">>, <<"n","o","t","e">>,
      <<"#"," ","F","i","x">>, <<"#"," "," ">>, << >> }

DocLines ==
    { << >>, <<"#"," ","T">>, <<"#","#"," ","N">>, <<"#","#","#"," ","d">>, <<"#","#"," ","#","n">>, HEADING, <<"s","e","e"," ">> \o HEADING,
      <<"#","#"," ","I","n","t","e","g","r","a","t","i","o","n">> }

\* every text of at most n lines drawn from lineSet, the lines joined by newlines
Texts(lineSet, n) ==
    UNION { { join(ls, <<"\n">>) : ls \in [1..k -> lineSet] } : k \in 0..n }

\* values of datetime.now().strftime('%Y-%m-%d %H:%M')
Timestamps == { <<"2","0","2","4","-","0","5","-","0","1"," ","1","2",":","3","0">>, <<"2","0","2","4","-","0","5","-","0","1"," ","1","2",":","3","1">> }

Issue(f, t, p) ==
    [filename |-> f, title |-> t, priority |-> p, status |-> <<"o","p","e","n">>,
     type |-> <<"u","n","k","n","o","w","n">>, discovered |-> << >>]

\* the fragments update_readme is run with: the index of no issue, and of one
\* issue whose title holds a backslash escape
Fragments ==
    { generate_index_section(<< >>, <<"2","0","2","4","-","0","5","-","0","1"," ","1","2",":","3","0">>),
      generate_index_section(<<Issue(<<"a",".","m","d">>, <<"F","i","x","\\","n">>, <<"H","i","g","h">>)>>, <<"2","0","2","4","-","0","5","-","0","1"," ","1","2",":","3","0">>) }

README_NAME == <<"R","E","A","D","M","E",".","m","d">>

\* EXCLUDE_FILES
EXCLUDE_FILES == { README_NAME, <<"_","T","E","M","P","L","A","T","E",".","m","d">> }

FileNames == { <<"a",".","m","d">>, <<"B",".","m","d">>, <<"_","T","E","M","P","L","A","T","E",".","m","d">> }

FileTexts ==
    { <<"-","-","-","\n","p","r","i","o","r","i","t","y",":"," ","H","i","g","h","\n","-","-","-","\n","\n","#"," ","F","i","x","\n">>,
      <<"-","-","-","\n","p","r","i","o","r","i","t","y",":"," ","h","i","g","h","\n","s","t","a","t","u","s",":"," ","d","o","n","e","\n","-","-","-","\n","#"," ","F","i","x","\n">>,
      <<"-","-","-","\n","p","r","i","o","r","i","t","y",":"," ","\"","M","E","D","I","U","M","\"","\n","-","-","-","\n","\n","#"," ","M","i","d","\n">>,
      <<"-","-","-","\n","p","r","i","o","r","i","t","y",":"," ","u","r","g","e","n","t","\n","-","-","-","\n","\n","#"," ","N","o","w","\n">>,
      <<"#"," ","P","l","a","i","n","\n">> }

\* the directories: each a set of files with distinct names
Dirs ==
    { d \in SUBSET [filename : FileNames, text : FileTexts] :
        /\ Cardinality(d) <= MaxFiles
        /\ \A f, g \in d : f.filename = g.filename => f = g }

MainReadmes == { <<"#"," ","D","e","b","t","\n">>, <<"#"," ","D","e","b","t","\n","\n">> \o HEADING \o <<"\n","o","l","d","\n","\n","#","#"," ","I","n","t","e","g","r","a","t","i","o","n","\n">> }

\* the orders in which Path.glob may yield the files of a set
Orders(S) ==
    { o \in [1..Cardinality(S) -> S] : \A i, j \in 1..Cardinality(S) : o[i] = o[j] => i = j }

-----------------------------------------------------------------------------
(* State *)

NoText == << >>

TextIdle ==
    /\ content = NoText /\ frontmatter = {} /\ title = NoText

ReadmeIdle ==
    /\ readme_exists = FALSE /\ readme = NoText /\ new_section = NoText /\ branch = "none"

MainIdle ==
    /\ tech_debt = {} /\ issues = << >> /\ by_priority = {} /\ printed = << >>

ArchiveIdle ==
    /\ stdin = [kind |-> "none"] /\ fs = {} /\ data = {} /\ project_root = << >>

\* one file of scan_issues: the text functions applied to a bounded text
InitText ==
    /\ pc = "parse"
    /\ content \in Texts(TextLines, MaxTextLines)
    /\ frontmatter = {} /\ title = NoText
    /\ ReadmeIdle /\ MainIdle /\ ArchiveIdle
    /\ exit_code = -1 /\ writes = << >>

\* update_readme run on a bounded document
InitReadme ==
    /\ pc = "update"
    /\ readme_exists = TRUE
    /\ readme \in Texts(DocLines, MaxDocLines)
    /\ new_section \in Fragments
    /\ branch = "none"
    /\ TextIdle /\ MainIdle /\ ArchiveIdle
    /\ exit_code = -1 /\ writes = << >>

\* update-tech-debt-index.py started on a bounded directory
InitMain ==
    /\ pc = "scan"
    /\ tech_debt \in Dirs
    /\ readme_exists \in BOOLEAN
    /\ readme \in (IF readme_exists THEN MainReadmes ELSE {NoText})
    /\ new_section = NoText /\ branch = "none"
    /\ issues = << >> /\ by_priority = {} /\ printed = << >>
    /\ TextIdle /\ ArchiveIdle
    /\ exit_code = -1 /\ writes = << >>

-----------------------------------------------------------------------------
(* update-tech-debt-index.py *)

\* lines 82-84, first half: frontmatter = parse_frontmatter(content)
ParseFrontmatter ==
    /\ pc = "parse"
    /\ frontmatter' = parse_frontmatter(content)
    /\ pc' = "title"
    /\ UNCHANGED <<content, title, readme_exists, readme, new_section, branch,
                   tech_debt, issues, by_priority, printed, exit_code, writes,
                   stdin, fs, data, project_root>>

\* line 84: title = extract_title(content)
ExtractTitle ==
    /\ pc = "title"
    /\ title' = extract_title(content)
    /\ pc' = "record"
    /\ UNCHANGED <<content, frontmatter, readme_exists, readme, new_section, branch,
                   tech_debt, issues, by_priority, printed, exit_code, writes,
                   stdin, fs, data, project_root>>

\* lines 86-93: the record of one file
IssueRecord(name, fm, t) ==
    [filename |-> name, title |-> t,
     priority |-> Get(fm, <<"p","r","i","o","r","i","t","y">>, <<"l","o","w">>),
     status |-> Get(fm, <<"s","t","a","t","u","s">>, <<"o","p","e","n">>),
     type |-> Get(fm, <<"t","y","p","e">>, <<"u","n","k","n","o","w","n">>),
     discovered |-> Get(fm, <<"d","i","s","c","o","v","e","r","e","d">>, << >>)]

AppendIssue ==
    /\ pc = "record"
    /\ issues' = Append(issues, IssueRecord(<<"f","i","l","e",".","m","d">>, frontmatter, title))
    /\ pc' = "scanned"
    /\ UNCHANGED <<content, frontmatter, title, readme_exists, readme, new_section,
                   branch, tech_debt, by_priority, printed, exit_code, writes,
                   stdin, fs, data, project_root>>

\* TECH_DEBT_DIR.glob("*.md"): the issue files, and the README when it exists
Glob ==
    tech_debt \cup (IF readme_exists THEN {[filename |-> README_NAME, text |-> readme]} ELSE {})

\* scan_issues, lines 74-95, the files taken in any order
ScanIssues ==
    /\ pc = "scan"
    /\ \E o \in Orders({f \in Glob : f.filename \notin EXCLUDE_FILES}) :
          issues' = [i \in 1..Len(o) |->
                        IssueRecord(o[i].filename, parse_frontmatter(o[i].text),
                                    extract_title(o[i].text))]
    /\ pc' = "count"
    /\ UNCHANGED <<content, frontmatter, title, readme_exists, readme, new_section,
                   branch, tech_debt, by_priority, printed, exit_code, writes,
                   stdin, fs, data, project_root>>

\* main lines 174-177: by_priority[p] = by_priority.get(p, 0) + 1 over the issues
CountOf(l, p) == Cardinality({i \in 1..Len(l) : l[i].priority = p})

MainCounts(l) == { <<l[i].priority, CountOf(l, l[i].priority)>> : i \in 1..Len(l) }

\* main lines 179-182: one line per priority of PRIORITY_ORDER with a count > 0
RECURSIVE PrintedLines(_, _)
PrintedLines(counts, k) ==
    IF k > Len(PRIORITY_ORDER) THEN << >>
    ELSE LET p == PRIORITY_ORDER[k]
             count == Get(counts, p, 0)
         IN  (IF count > 0 THEN << <<capitalize(p), count>> >> ELSE << >>)
             \o PrintedLines(counts, k + 1)

CountByPriority ==
    /\ pc = "count"
    /\ by_priority' = MainCounts(issues)
    /\ printed' = PrintedLines(MainCounts(issues), 1)
    /\ pc' = "generate"
    /\ UNCHANGED <<content, frontmatter, title, readme_exists, readme, new_section,
                   branch, tech_debt, issues, exit_code, writes,
                   stdin, fs, data, project_root>>

\* main line 184
GenerateIndexSection ==
    /\ pc = "generate"
    /\ \E now \in Timestamps : new_section' = generate_index_section(issues, now)
    /\ pc' = "update"
    /\ UNCHANGED <<content, frontmatter, title, readme_exists, readme, branch,
                   tech_debt, issues, by_priority, printed, exit_code, writes,
                   stdin, fs, data, project_root>>

\* update_readme, lines 138-163; re.error raised by re.sub leaves the file as it was
UpdateReadme ==
    /\ pc = "update"
    /\ IF ~readme_exists
       THEN /\ branch' = "missing"
            /\ UNCHANGED <<content, readme, writes>>
       ELSE /\ content' = readme
            /\ branch' = BranchOf(readme, new_section)
            /\ IF BranchOf(readme, new_section) = "error"
               THEN UNCHANGED <<readme, writes>>
               ELSE /\ readme' = NewContent(readme, new_section)
                    /\ writes' = Append(writes, README_NAME)
    /\ pc' = "updated"
    /\ UNCHANGED <<frontmatter, title, readme_exists, new_section, tech_debt, issues,
                   by_priority, printed, exit_code, stdin, fs, data, project_root>>

\* the script run once more with the same fragment
RunAgain ==
    /\ pc = "updated"
    /\ Len(writes) = 1
    /\ pc' = "update"
    /\ UNCHANGED <<content, frontmatter, title, readme_exists, readme, new_section,
                   branch, tech_debt, issues, by_priority, printed, exit_code, writes,
                   stdin, fs, data, project_root>>

\* main lines 186-192 and exit(main()): 1 when update_readme returned False, and
\* the interpreter's status 1 for an exception nobody caught
Return ==
    /\ pc = "updated"
    /\ exit_code' = (IF branch \in {"missing", "error"} THEN 1 ELSE 0)
    /\ pc' = "exit"
    /\ UNCHANGED <<content, frontmatter, title, readme_exists, readme, new_section,
                   branch, tech_debt, issues, by_priority, printed, writes,
                   stdin, fs, data, project_root>>

-----------------------------------------------------------------------------
(* session-archive.py.  A path is the sequence of its names from the root. *)

parent(path) == IF path = << >> THEN path ELSE SubSeq(path, 1, Len(path) - 1)

\* the working directory of the process: Path(".") and Path("") resolve to it
ProcessCwd == << <<"p","r","o","j">>, <<"s","u","b">> >>

TranscriptPath == << <<"t","m","p">>, <<"t",".","j","s","o","n","l">> >>

MemoryBank(root) == Append(root, <<".","m","e","m","o","r","y","-","b","a","n","k">>)

\* find_project_root, lines 18-26: upwards from the start, the root itself not tried
RECURSIVE find_project_root_from(_, _, _)
find_project_root_from(current, start_path, files) ==
    IF current = parent(current) THEN start_path
    ELSE IF MemoryBank(current) \in files THEN current
    ELSE find_project_root_from(parent(current), start_path, files)

find_project_root(start_path, files) == find_project_root_from(start_path, start_path, files)

\* the directories mkdir(parents=True, exist_ok=True) creates for path, outermost first
RECURSIVE Missing(_, _)
Missing(path, files) ==
    IF path = << >> \/ path \in files THEN << >>
    ELSE Append(Missing(parent(path), files), path)

SeqToSet(q) == {q[i] : i \in 1..Len(q)}

\* the JSON documents on standard input
StdinDocs ==
    { [kind |-> "malformed"], [kind |-> "array"] }
    \cup { [kind |-> "object", fields |-> f] :
             f \in SUBSET ( { <<"session_id", <<"a","b","c">>>>, <<"transcript_path", TranscriptPath>>,
                              <<"cwd", << <<"p","r","o","j">> >> >>, <<"reason", <<"e","x","i","t">>>> } )
                   \cup { g \cup { <<"session_id", <<"a","b","c","d","e","f","1","2","3","4">>>> } :
                           g \in SUBSET { <<"transcript_path", TranscriptPath>>,
                                          <<"cwd", << <<"p","r","o","j">>, <<"s","u","b">> >> >> } } }

\* the directories that always exist
BaseDirs == { << <<"p","r","o","j">> >>, << <<"p","r","o","j">>, <<"s","u","b">> >>, << <<"t","m","p">> >> }

IsDir(path, files) == path \in files /\ path # TranscriptPath

\* file systems the archiver may start in
FileSystems ==
    { BaseDirs \cup x :
        x \in { {}, {TranscriptPath},
                {MemoryBank(<< <<"p","r","o","j">> >>)},
                {MemoryBank(<< <<"p","r","o","j">> >>), TranscriptPath},
                {MemoryBank(<< <<"p","r","o","j">> >>), Append(MemoryBank(<< <<"p","r","o","j">> >>), <<"s","e","s","s","i","o","n","s">>)},
                {MemoryBank(<< <<"p","r","o","j">> >>), Append(MemoryBank(<< <<"p","r","o","j">> >>), <<"s","e","s","s","i","o","n","s">>),
                 TranscriptPath} } }

\* values of datetime.now().strftime("%Y-%m-%d_%H%M")
ArchiveStamps == { <<"2","0","2","4","-","0","5","-","0","1","_","1","2","3","0">> }

InitArchive ==
    /\ pc = "read"
    /\ stdin \in StdinDocs
    /\ fs \in FileSystems
    /\ data = {} /\ project_root = << >>
    /\ TextIdle /\ ReadmeIdle /\ MainIdle
    /\ exit_code = -1 /\ writes = << >>

\* main lines 30-40: json.load(sys.stdin) and the four data.get; a document that
\* is no object has no get, and the exception ends the script with status 1
ReadStdin ==
    /\ pc = "read"
    /\ IF stdin.kind = "object"
       THEN /\ data' = { <<"session_id", Get(stdin.fields, "session_id", <<"u","n","k","n","o","w","n">>)>>,
                         <<"transcript_path", Get(stdin.fields, "transcript_path", ProcessCwd)>>,
                         <<"reason", Get(stdin.fields, "reason", <<"u","n","k","n","o","w","n">>)>>,
                         <<"cwd", Get(stdin.fields, "cwd", ProcessCwd)>> }
            /\ pc' = "root"
            /\ UNCHANGED exit_code
       ELSE /\ exit_code' = 1
            /\ pc' = "exit"
            /\ UNCHANGED data
    /\ UNCHANGED <<content, frontmatter, title, readme_exists, readme, new_section,
                   branch, tech_debt, issues, by_priority, printed, writes,
                   stdin, fs, project_root>>

destination_dir(root) == Append(MemoryBank(root), <<"s","e","s","s","i","o","n","s">>)

\* main lines 43-45: the project root found, the sessions directory made
MakeDestination ==
    /\ pc = "root"
    /\ LET root == find_project_root(Get(data, "cwd", ProcessCwd), fs)
       IN  /\ project_root' = root
           /\ fs' = fs \cup SeqToSet(Missing(destination_dir(root), fs))
           /\ writes' = writes \o Missing(destination_dir(root), fs)
    /\ pc' = "verify"
    /\ UNCHANGED <<content, frontmatter, title, readme_exists, readme, new_section,
                   branch, tech_debt, issues, by_priority, printed, exit_code,
                   stdin, data>>

\* main lines 48-50
VerifyTranscript ==
    /\ pc = "verify"
    /\ IF Get(data, "transcript_path", ProcessCwd) \notin fs
       THEN exit_code' = 1 /\ pc' = "exit"
       ELSE pc' = "copy" /\ UNCHANGED exit_code
    /\ UNCHANGED <<content, frontmatter, title, readme_exists, readme, new_section,
                   branch, tech_debt, issues, by_priority, printed, writes,
                   stdin, fs, data, project_root>>

\* line 54
short_id(session_id) == IF Len(session_id) >= 8 THEN Slice(session_id, 0, 8) ELSE session_id

\* lines 53-56
destination_path(root, session_id, timestamp) ==
    Append(destination_dir(root), timestamp \o <<"_">> \o short_id(session_id) \o <<".","j","s","o","n","l">>)

\* main lines 52-64: shutil.copy2 either copies, or raises (always for a source
\* that is a directory) with the destination created or not, and the script
\* ends with status 1; falling off main ends it with status 0
CopyTranscript ==
    /\ pc = "copy"
    /\ \E timestamp \in ArchiveStamps, copied \in BOOLEAN, created \in BOOLEAN :
          LET source == Get(data, "transcript_path", ProcessCwd)
              dest == destination_path(project_root, Get(data, "session_id", <<"u","n","k","n","o","w","n">>), timestamp)
          IN  /\ IsDir(source, fs) => ~copied /\ ~created
              /\ copied => created
              /\ fs' = (IF created THEN fs \cup {dest} ELSE fs)
              /\ writes' = (IF created THEN Append(writes, dest) ELSE writes)
              /\ exit_code' = (IF copied THEN 0 ELSE 1)
    /\ pc' = "exit"
    /\ UNCHANGED <<content, frontmatter, title, readme_exists, readme, new_section,
                   branch, tech_debt, issues, by_priority, printed,
                   stdin, data, project_root>>

-----------------------------------------------------------------------------
(* Specifications *)

Init == InitMain \/ InitArchive

Next ==
    \/ ScanIssues
    \/ CountByPriority
    \/ GenerateIndexSection
    \/ UpdateReadme
    \/ Return
    \/ ReadStdin
    \/ MakeDestination
    \/ VerifyTranscript
    \/ CopyTranscript

\* one run of either script
Spec == Init /\ [][Next]_vars

NextText == ParseFrontmatter \/ ExtractTitle \/ AppendIssue

NextReadme == UpdateReadme \/ RunAgain

\* the text functions of scan_issues on one bounded text
SpecText == InitText /\ [][NextText]_vars

\* update_readme on a bounded document, run a second time with the same fragment
SpecReadme == InitReadme /\ [][NextReadme]_vars

-----------------------------------------------------------------------------
(* Properties of parse_frontmatter and extract_title, under SpecText *)

Lines(text) == split(text, "\n")

HasColon(line) == find(line, <<":">>, 0) # -1

KeyOf(line) == strip(Slice(line, 0, find(line, <<":">>, 0)))

ValueOf(line) ==
    LET v == strip(SliceFrom(line, find(line, <<":">>, 0) + 1))
    IN  IF Len(v) >= 1 /\ v[1] = v[Len(v)] /\ v[1] \in {"\"", "'"}
        THEN Slice(v, 1, Len(v) - 1) ELSE v

\* the mapping the lines between the delimiter lines stand for: one pair per key,
\* from the last line that has the key
PairsOf(between) ==
    { <<KeyOf(between[i]), ValueOf(between[i])>> :
        i \in { j \in 1..Len(between) :
                  /\ HasColon(between[j])
                  /\ \A k \in (j + 1)..Len(between) :
                        HasColon(between[k]) => KeyOf(between[k]) # KeyOf(between[j]) } }

\* indices of the lines after the first that consist solely of ---
ClosingLines(text) == { k \in 2..Len(Lines(text)) : Lines(text)[k] = <<"-","-","-">> }

ExpectedFrontmatter(text) ==
    IF startswith(text, <<"-","-","-">>) /\ ClosingLines(text) # {}
    THEN PairsOf(SubSeq(Lines(text), 2, Least(ClosingLines(text)) - 1))
    ELSE {}

\* C5: for a text that begins with --- and has a later line consisting solely of
\* ---, followed by a newline or last in the text, parse_frontmatter returns the
\* mapping of the lines between the two, and the empty mapping for any other text
C5_ParsesDelimitedBlock ==
    pc \in {"title", "record", "scanned"} => frontmatter = ExpectedFrontmatter(content)

\* the text after the frontmatter block that parse_frontmatter detects
AfterFrontmatter(text) ==
    IF startswith(text, <<"-","-","-">>) /\ SearchClosing(SliceFrom(text, 3)) # -1
    THEN SliceFrom(text, 3 + SearchClosing(SliceFrom(text, 3)) + Len(<<"\n","-","-","-","\n">>))
    ELSE text

\* a line of the form '# text'
IsTitleLine(line) == startswith(line, <<"#"," ">>) /\ strip(SliceFrom(line, 2)) # << >>

TitleLines(text) == { k \in 1..Len(Lines(text)) : IsTitleLine(Lines(text)[k]) }

\* C4: extract_title skips exactly the frontmatter block and returns the trimmed
\* text of the first line of the form '# text' that follows, the line right after
\* the closing --- included
C4_TitleAfterFrontmatter ==
    (/\ pc \in {"record", "scanned"}
     /\ AfterFrontmatter(content) # content
     /\ TitleLines(AfterFrontmatter(content)) # {})
        => title = strip(SliceFrom(Lines(AfterFrontmatter(content))
                                     [Least(TitleLines(AfterFrontmatter(content)))], 2))

\* C8: the title is never empty: it is the trimmed text of a '# ' heading line,
\* or the placeholder when no heading line carries text
C8_TitleNeverEmpty ==
    pc \in {"record", "scanned"} =>
        /\ title # << >>
        /\ \/ title = Untitled
           \/ \E k \in TitleLines(content) : title = strip(SliceFrom(Lines(content)[k], 2))

-----------------------------------------------------------------------------
(* Properties of update_readme, under SpecReadme *)

\* what re.sub puts in place of a region
Written == Expand(rstrip(new_section) \o <<"\n">>)

Occurrences(text) == { k \in 0..(Len(text) - Len(HEADING)) : Slice(text, k, k + Len(HEADING)) = HEADING }

\* offsets of the newlines before a line that starts a level-2 heading: '## ' and
\* then a character that is not '#'
Level2Breaks(text) ==
    { k \in 0..(Len(text) - 5) :
        /\ text[k + 1] = "\n" /\ text[k + 2] = "#" /\ text[k + 3] = "#" /\ text[k + 4] = " "
        /\ text[k + 5] # "#" }

\* offsets of the newlines before a line that starts a heading of level 1 or 2
SameOrHigherBreaks(text) ==
    { k \in 0..(Len(text) - 3) :
        /\ text[k + 1] = "\n"
        /\ \/ text[k + 2] = "#" /\ text[k + 3] = " "
           \/ k + 4 <= Len(text) /\ text[k + 2] = "#" /\ text[k + 3] = "#" /\ text[k + 4] = " " }

\* where the region that starts at offset start ends, given the offsets that end a region
RegionEnd(text, start, breaks) ==
    LET after == { k \in breaks : k >= start + Len(HEADING) }
    IN  IF after = {} THEN Len(text) ELSE Least(after)

\* the document r is the document c with the region from the first heading to
\* offset e replaced by w: the text before the heading, w, then the text from e
\* on, itself unchanged up to its next heading
ReplacedUpTo(c, r, w, e) ==
    LET start == Least(Occurrences(c))
        rest == SliceFrom(c, e)
        tail == SliceFrom(r, start + Len(w))
        next == find(rest, HEADING, 0)
    IN  /\ startswith(r, Slice(c, 0, start) \o w)
        /\ IF next = -1 THEN tail = rest ELSE startswith(tail, Slice(rest, 0, next))

Replaced == pc = "updated" /\ branch = "replace"

\* C2 as stated: the region runs from the heading to just before the next line
\* that starts a heading of level 1 or 2, or to the end of the document
C2_RegionEndsAtSameOrHigher ==
    Replaced =>
        ReplacedUpTo(content, readme, Written,
                     RegionEnd(content, Least(Occurrences(content)), SameOrHigherBreaks(content)))

\* C2 amended: the region runs from the first occurrence of the heading text to
\* just before the next line that starts with '## ' and a character other than
\* '#', or to the end of the document; a level-1 heading does not end it
C2_RegionEndsAtLevel2 ==
    Replaced =>
        ReplacedUpTo(content, readme, Written,
                     RegionEnd(content, Least(Occurrences(content)), Level2Breaks(content)))

\* a region that holds a level-1 heading line and ends at a level-2 heading
C2_Witness ==
    /\ Replaced
    /\ LET start == Least(Occurrences(content))
           e == RegionEnd(content, start, Level2Breaks(content))
       IN  /\ e < Len(content)
           /\ \E k \in SameOrHigherBreaks(content) \ Level2Breaks(content) :
                 start + Len(HEADING) <= k /\ k < e

\* r keeps the first `before` characters of c at its start and the text of c
\* from offset `from` on at its end, w at least between them
Keeps(c, r, before, from, w) ==
    /\ startswith(r, Slice(c, 0, before))
    /\ endswith(r, SliceFrom(c, from))
    /\ Len(r) >= before + Len(w) + (Len(c) - from)

\* the document is kept whole around the fragment
KeptWhole(c, r, w) == \E k \in 0..Len(c) : Keeps(c, r, k, k, w)

\* C3 as stated: the text before the heading line and the text from the next
\* heading of level 1 or 2 on are kept; with no region the whole document is
C3_KeepsOutsideSameOrHigher ==
    pc = "updated" =>
        CASE branch = "replace" ->
               Keeps(content, readme, Least(Occurrences(content)),
                     RegionEnd(content, Least(Occurrences(content)), SameOrHigherBreaks(content)),
                     Written)
          [] branch \in {"insert", "append"} -> KeptWhole(content, readme, new_section)
          [] OTHER -> TRUE

\* C3 amended: the text before the first occurrence of the heading text and the
\* text from the end of the last region on are kept, a region ending before the
\* next '## ' line; inserted before the anchor, the fragment leaves the document
\* whole; appended, it follows the document less its trailing whitespace
C3_KeepsOutsideRegions ==
    pc = "updated" =>
        CASE branch = "replace" ->
               Keeps(content, readme, Least(Occurrences(content)),
                     RegionEnd(content, Max(Occurrences(content)), Level2Breaks(content)),
                     Written)
          [] branch = "insert" ->
               \E k \in 0..Len(content) :
                  readme = Slice(content, 0, k) \o <<"\n">> \o new_section \o <<"\n">>
                           \o SliceFrom(content, k)
          [] branch = "append" -> readme = rstrip(content) \o <<"\n","\n">> \o new_section
          [] OTHER -> readme = content

\* a replacement with text before the region and text after it
C3_Witness ==
    /\ Replaced
    /\ Least(Occurrences(content)) > 0
    /\ RegionEnd(content, Max(Occurrences(content)), Level2Breaks(content)) < Len(content)
    /\ readme # content

\* C1: run again with the same fragment, update_readme writes the document it read
C1_Idempotent ==
    (pc = "updated" /\ Len(writes) = 2) => readme = content

\* offsets at which a line starts with the anchor heading
AnchorLines(text) ==
    { k \in 0..(Len(text) - Len(<<"#","#"," ","I","n","t","e","g","r","a","t","i","o","n">>)) :
        /\ Slice(text, k, k + Len(<<"#","#"," ","I","n","t","e","g","r","a","t","i","o","n">>)) = <<"#","#"," ","I","n","t","e","g","r","a","t","i","o","n">>
        /\ (k = 0 \/ text[k] = "\n") }

\* C7: with no region, the fragment goes right before the anchor heading wherever
\* that heading is, the first line included, and only without an anchor to the
\* end, one blank line after the content
C7_InsertsBeforeAnchor ==
    (pc = "updated" /\ branch \in {"insert", "append"}) =>
        IF AnchorLines(content) # {}
        THEN LET a == Least(AnchorLines(content))
             IN  /\ Keeps(content, readme, a, a, new_section)
                 /\ strip(Slice(readme, a, Len(readme) - (Len(content) - a))) = strip(new_section)
        ELSE readme = rstrip(content) \o <<"\n","\n">> \o new_section

-----------------------------------------------------------------------------
(* Properties of one run of either script, under Spec *)

Generated == pc \in {"update", "updated", "exit"} /\ stdin.kind = "none"

Label(p) == <<"*","*">> \o capitalize(p) \o <<" ","P","r","i","o","r","i","t","y",":","*","*">>

\* the line on which the block of priority p starts
LabelLine(lines, p) == CHOOSE i \in 1..Len(lines) : startswith(lines[i], Label(p))

\* the lines below the label of PRIORITY_ORDER[k], down to the next label
BlockOf(lines, k) ==
    { i \in 1..Len(lines) :
        /\ i > LabelLine(lines, PRIORITY_ORDER[k])
        /\ k < Len(PRIORITY_ORDER) => i < LabelLine(lines, PRIORITY_ORDER[k + 1]) }

IsIssueLine(line) == startswith(line, <<"-"," ">>)

\* the bucket the claim gives a priority string
NamedBucket(priority) ==
    IF lower(priority) \in {<<"h","i","g","h">>, <<"m","e","d","i","u","m">>, <<"l","o","w">>} THEN lower(priority) ELSE <<"l","o","w">>

\* C6: every issue is rendered once, under the bucket of its lower-cased priority,
\* low for a priority outside the set; the buckets come in the order high, medium,
\* low; an empty one reads "None currently"
C6_EachIssueInItsBucket ==
    Generated =>
        LET lines == Lines(new_section)
        IN  /\ \A k \in 1..3 :
                  Cardinality({i \in 1..Len(lines) : startswith(lines[i], Label(PRIORITY_ORDER[k]))}) = 1
            /\ LabelLine(lines, <<"h","i","g","h">>) < LabelLine(lines, <<"m","e","d","i","u","m">>)
            /\ LabelLine(lines, <<"m","e","d","i","u","m">>) < LabelLine(lines, <<"l","o","w">>)
            /\ Cardinality({i \in 1..Len(lines) : IsIssueLine(lines[i])}) = Len(issues)
            /\ \A n \in 1..Len(issues) :
                  \E k \in 1..3 :
                     /\ PRIORITY_ORDER[k] = NamedBucket(issues[n].priority)
                     /\ {i \in 1..Len(lines) : lines[i] = IssueLine(issues[n])} \subseteq BlockOf(lines, k)
                     /\ Cardinality({i \in 1..Len(lines) : lines[i] = IssueLine(issues[n])}) = 1
            /\ \A k \in 1..3 :
                  lines[LabelLine(lines, PRIORITY_ORDER[k])] =
                     (IF \E n \in 1..Len(issues) : NamedBucket(issues[n].priority) = PRIORITY_ORDER[k]
                      THEN Label(PRIORITY_ORDER[k])
                      ELSE Label(PRIORITY_ORDER[k]) \o <<" ","N","o","n","e"," ","c","u","r","r","e","n","t","l","y">>)

\* a section of an issue whose priority differs from high in case only and one
\* whose priority is outside the set, the medium bucket empty
C6_Witness ==
    /\ Generated
    /\ \E n, m \in 1..Len(issues) :
          /\ issues[n].priority = <<"H","i","g","h">>
          /\ issues[m].priority = <<"u","r","g","e","n","t">>
    /\ \E i \in 1..Len(Lines(new_section)) :
          Lines(new_section)[i] = <<"*","*","M","e","d","i","u","m"," ","P","r","i","o","r","i","t","y",":","*","*"," ","N","o","n","e"," ","c","u","r","r","e","n","t","l","y">>

\* the count main printed for a priority, 0 when it printed none
PrintedCount(p) ==
    IF \E i \in 1..Len(printed) : printed[i][1] = capitalize(p)
    THEN printed[CHOOSE i \in 1..Len(printed) : printed[i][1] = capitalize(p)][2]
    ELSE 0

\* C10: the count main reports for each priority is the number of issues the
\* section renders under it
C10_CountsMatchBuckets ==
    Generated =>
        \A k \in 1..3 :
           PrintedCount(PRIORITY_ORDER[k]) =
              Cardinality({i \in BlockOf(Lines(new_section), k) : IsIssueLine(Lines(new_section)[i])})

\* C9: a run that ends on a missing required file has written and created
\* nothing, and a run ends with status 0 only when it wrote its target
C9_CompletesOrFailsOutright ==
    pc = "exit" =>
        /\ (stdin.kind = "none" /\ ~readme_exists) => (exit_code # 0 /\ writes = << >>)
        /\ (stdin.kind = "object" /\ Get(data, "transcript_path", ProcessCwd) \notin fs)
              => (exit_code # 0 /\ writes = << >>)
        /\ exit_code = 0 =>
              \E i \in 1..Len(writes) :
                 \/ stdin.kind = "none" /\ writes[i] = README_NAME
                 \/ stdin.kind = "object" /\ parent(writes[i]) = destination_dir(project_root)

=============================================================================
